---- MODULE Spec2Model ----
(***************************************************************************)
(* Audio/text sync player (App component, geminiService, TextViewer).      *)
(*                                                                         *)
(* Strings are sequences of one-character strings, indices and cursors are *)
(* 0-based as in the source, times are whole numbers of clock ticks.       *)
(*                                                                         *)
(* SpecReconcile: the reconciliation loop of handleSubmit, for every       *)
(*                transcript and timing list within the bounds.            *)
(* SpecTracker:   playback on the ready screen, for every timing list.     *)
(* Spec:          the ready screen with playback and video export.         *)
(* SpecSubmit:    the input screen, from the form to the settled call.     *)
(* SpecLayout:    the layout loop of an export, for every transcript.      *)
(* SpecScroll:    the scroll of the frames of an export.                   *)
(***************************************************************************)
EXTENDS Integers, Sequences, FiniteSets, TLC

VARIABLES
    \* React state of App (part_000:27-40)
    textInput, wordTimings, viewElements, isPlaying, isExporting,
    activeWordIndex, error,
    \* locals of the reconciliation loop of handleSubmit (part_000:66-69)
    newViewElements, textCursor, forEachIndex, foundAt, submitPc,
    \* the <audio> element behind audioRef (part_000:42, 375-383)
    audio,
    \* one record per call of handleExportVideo that passed its guard
    sessions,
    \* React state of the input screen (part_000:27-30)
    appState, audioFile,
    \* the call of generateWordTimings in flight, and what it will settle with
    oracle, response,
    \* locals of exportProcess: text metrics and the layout loop
    \* (part_000:179-212), with the loop's position in viewElements
    charWidth, layoutIndex, charIndex, currentX, currentY, wordLayouts,
    \* locals of exportProcess read and written by renderFrame
    \* (part_000:264-265)
    currentScrollY, targetScrollY,
    \* the places in wordLayouts of the words the last frame drew on the
    \* highlight rectangle (part_000:304-315)
    highlighted

submitVars == <<appState, audioFile, oracle, response>>
layoutVars == <<charWidth, layoutIndex, charIndex, currentX, currentY, wordLayouts>>
scrollVars == <<currentScrollY, targetScrollY, highlighted>>

vars == <<textInput, wordTimings, viewElements, isPlaying, isExporting,
          activeWordIndex, error, newViewElements, textCursor, forEachIndex,
          foundAt, submitPc, audio, sessions, submitVars, layoutVars,
          scrollVars>>

----------------------------------------------------------------------------
\* Bounds of the model

\* characters of transcripts and words
Chars == {"a", " "}
\* longest transcript, longest word, longest timing list
MaxLen == 4
MaxWordLen == 2
MaxTimings == 2
\* start and end of a timing run over 0..MaxTime
MaxTime == 2
\* largest advance of the playback position between two timeupdate events
MaxStep == 2
\* export requests that pass the guard, and frames counted per session
MaxSessions == 2
MaxFrames == 1

\* the values of the error state: null and the three messages
NoError == "null"
ErrProvideBoth == "Please provide both an audio file and the transcript text."
ErrSyncFailed == "Failed to synchronize audio and text."
ErrPlayback == "Could not start audio playback for recording."

Min(a, b) == IF a < b THEN a ELSE b
Max(a, b) == IF a > b THEN a ELSE b

SeqsUpTo(S, n) == UNION {[1..k -> S] : k \in 0..n}

----------------------------------------------------------------------------
\* String primitives used by handleSubmit

RECURSIVE indexOfFrom(_, _, _)
indexOfFrom(s, w, p) ==
    IF p + Len(w) > Len(s) THEN -1
    ELSE IF SubSeq(s, p + 1, p + Len(w)) = w THEN p
    ELSE indexOfFrom(s, w, p + 1)

\* indexOf that forgets its position argument: every search starts at 0
indexOf_fromStart(s, w, position) == indexOfFrom(s, w, 0)

\* String.prototype.indexOf(searchString, position)
indexOf(s, w, position) == indexOfFrom(s, w, Min(Max(position, 0), Len(s)))

\* String.prototype.substring(start, end): clamps, and swaps when start > end
substring(s, start, end) ==
    LET a == Min(Max(start, 0), Len(s))
        b == Min(Max(end, 0), Len(s))
    IN  SubSeq(s, Min(a, b) + 1, Max(a, b))

\* the argument of indexOf converted to a string: a timing without a word
\* is searched for as "undefined"
searchString(timing) ==
    IF "word" \in DOMAIN timing THEN timing.word
    ELSE <<"u", "n", "d", "e", "f", "i", "n", "e", "d">>

\* { type: 'word', ...timing, originalIndex: index }: the fields the timing
\* has, and no others
WordElement(timing, index) ==
    [k \in DOMAIN timing \cup {"type", "originalIndex"} |->
        IF k = "originalIndex" THEN index
        ELSE IF k \in DOMAIN timing THEN timing[k]
        ELSE "word"]

WhitespaceElement(content) == [type |-> "whitespace", content |-> content]

\* forEach callback that leaves the cursor at the start of the found word
forEachCallback_cursorAtStart(text, elems, cursor, timing, index) ==
    LET wordStartIndex == indexOf(text, searchString(timing), cursor)
        whitespaceContent == substring(text, cursor, wordStartIndex)
        withWs == IF whitespaceContent # <<>>
                  THEN Append(elems, WhitespaceElement(whitespaceContent))
                  ELSE elems
    IN  IF wordStartIndex = -1
        THEN [elems |-> Append(elems, WordElement(timing, index)),
              cursor |-> cursor,
              wordStartIndex |-> -1]
        ELSE [elems |-> Append(withWs, WordElement(timing, index)),
              cursor |-> wordStartIndex,
              wordStartIndex |-> wordStartIndex]

\* forEach callback whose not-found branch flushes the rest of the transcript
\* in front of the word and moves the cursor to the end
forEachCallback_flushOnMiss(text, elems, cursor, timing, index) ==
    LET wordStartIndex == indexOf(text, searchString(timing), cursor)
        whitespaceContent ==
            IF wordStartIndex = -1 THEN substring(text, cursor, Len(text))
            ELSE substring(text, cursor, wordStartIndex)
        withWs == IF whitespaceContent # <<>>
                  THEN Append(elems, WhitespaceElement(whitespaceContent))
                  ELSE elems
    IN  IF wordStartIndex = -1
        THEN [elems |-> Append(withWs, WordElement(timing, index)),
              cursor |-> Len(text),
              wordStartIndex |-> -1]
        ELSE [elems |-> Append(withWs, WordElement(timing, index)),
              cursor |-> wordStartIndex + Len(timing.word),
              wordStartIndex |-> wordStartIndex]

\* forEach callback that numbers a word by its place in the element list
forEachCallback_elementPosition(text, elems, cursor, timing, index) ==
    LET wordStartIndex == indexOf(text, searchString(timing), cursor)
        whitespaceContent == substring(text, cursor, wordStartIndex)
        withWs == IF whitespaceContent # <<>>
                  THEN Append(elems, WhitespaceElement(whitespaceContent))
                  ELSE elems
    IN  IF wordStartIndex = -1
        THEN [elems |-> Append(elems, WordElement(timing, Len(elems))),
              cursor |-> cursor,
              wordStartIndex |-> -1]
        ELSE [elems |-> Append(withWs, WordElement(timing, Len(withWs))),
              cursor |-> wordStartIndex + Len(timing.word),
              wordStartIndex |-> wordStartIndex]

\* forEach callback that also steps over the character after the found word
forEachCallback_skipSeparator(text, elems, cursor, timing, index) ==
    LET wordStartIndex == indexOf(text, searchString(timing), cursor)
        whitespaceContent == substring(text, cursor, wordStartIndex)
        withWs == IF whitespaceContent # <<>>
                  THEN Append(elems, WhitespaceElement(whitespaceContent))
                  ELSE elems
    IN  IF wordStartIndex = -1
        THEN [elems |-> Append(elems, WordElement(timing, index)),
              cursor |-> cursor,
              wordStartIndex |-> -1]
        ELSE [elems |-> Append(withWs, WordElement(timing, index)),
              cursor |-> wordStartIndex + Len(timing.word) + 1,
              wordStartIndex |-> wordStartIndex]

\* The callback of timings.forEach: one timing against the running cursor.
\* Yields the new element list, the new cursor and the wordStartIndex found.
forEachCallback(text, elems, cursor, timing, index) ==
    LET wordStartIndex == indexOf(text, searchString(timing), cursor)
        whitespaceContent == substring(text, cursor, wordStartIndex)
        withWs == IF whitespaceContent # <<>>
                  THEN Append(elems, WhitespaceElement(whitespaceContent))
                  ELSE elems
    IN  IF wordStartIndex = -1
        THEN [elems |-> Append(elems, WordElement(timing, index)),
              cursor |-> cursor,
              wordStartIndex |-> -1]
        ELSE [elems |-> Append(withWs, WordElement(timing, index)),
              cursor |-> wordStartIndex + Len(timing.word),
              wordStartIndex |-> wordStartIndex]

\* the loop's tail forgotten: nothing is emitted after the last word
remainingWhitespaceElements_none(text, elems, cursor) == elems

\* The tail after the loop: the rest of the transcript, when not empty
remainingWhitespaceElements(text, elems, cursor) ==
    LET remainingWhitespace == SubSeq(text, Min(Max(cursor, 0), Len(text)) + 1, Len(text))
    IN  IF remainingWhitespace # <<>>
        THEN Append(elems, WhitespaceElement(remainingWhitespace))
        ELSE elems

----------------------------------------------------------------------------
\* Values the state is built from

\* the <audio> element as mounted: paused at 0, nothing queued
NewAudio(duration) ==
    [duration |-> duration, currentTime |-> 0, paused |-> TRUE,
     seeking |-> FALSE, endedQueued |-> FALSE]

\* Timings as the alignment service returns them for a list of words:
\* consecutive unit intervals in list order
TimingsOf(words) ==
    [i \in 1..Len(words) |-> [word |-> words[i], start |-> i - 1, end |-> i]]

\* no call of generateWordTimings is in flight
NoResponse == [kind |-> "none", timings |-> <<>>]

\* no exportProcess has run: its locals hold nothing
NoExport ==
    /\ charWidth = <<>>
    /\ layoutIndex = 0
    /\ charIndex = 0
    /\ currentX = 0
    /\ currentY = 0
    /\ wordLayouts = <<>>
    /\ currentScrollY = 0
    /\ targetScrollY = 0
    /\ highlighted = {}

----------------------------------------------------------------------------
\* handleSubmit after generateWordTimings has resolved (part_000:64-92)

InitReconcile ==
    /\ textInput \in SeqsUpTo(Chars, MaxLen)
    /\ \E words \in SeqsUpTo(SeqsUpTo(Chars, MaxWordLen), MaxTimings) :
          wordTimings = TimingsOf(words)
    /\ viewElements = <<>>
    /\ isPlaying = FALSE
    /\ isExporting = FALSE
    /\ activeWordIndex = -1
    /\ error = NoError
    /\ newViewElements = <<>>
    /\ textCursor = 0
    /\ forEachIndex = 0
    /\ foundAt = <<>>
    /\ submitPc = "forEach"
    /\ audio = NewAudio(0)
    /\ sessions = <<>>
    /\ appState = "loading"
    /\ audioFile = TRUE
    /\ oracle = "idle"
    /\ response = NoResponse
    /\ NoExport

\* one iteration of timings.forEach
forEachStep ==
    /\ submitPc = "forEach"
    /\ forEachIndex < Len(wordTimings)
    /\ LET r == forEachCallback(textInput, newViewElements, textCursor,
                                wordTimings[forEachIndex + 1], forEachIndex)
       IN  /\ newViewElements' = r.elems
           /\ textCursor' = r.cursor
           /\ foundAt' = Append(foundAt, r.wordStartIndex)
    /\ forEachIndex' = forEachIndex + 1
    /\ UNCHANGED <<textInput, wordTimings, viewElements, isPlaying,
                   isExporting, activeWordIndex, error, submitPc, audio,
                   sessions, submitVars, layoutVars, scrollVars>>

\* after the loop: remaining whitespace, setViewElements, setAppState('ready')
finishSubmit ==
    /\ submitPc = "forEach"
    /\ forEachIndex = Len(wordTimings)
    /\ newViewElements' =
          remainingWhitespaceElements(textInput, newViewElements, textCursor)
    /\ viewElements' = newViewElements'
    /\ submitPc' = "ready"
    /\ appState' = "ready"
    /\ UNCHANGED <<textInput, wordTimings, isPlaying, isExporting,
                   activeWordIndex, error, textCursor, forEachIndex, foundAt,
                   audio, sessions, audioFile, oracle, response, layoutVars,
                   scrollVars>>

NextReconcile == forEachStep \/ finishSubmit

SpecReconcile == InitReconcile /\ [][NextReconcile]_vars

----------------------------------------------------------------------------
\* Playback position tracker

\* findIndex predicate with the end of the interval included
timingMatches_closed(timing, time) == time >= timing.start /\ time <= timing.end

\* the predicate of both findIndex calls (part_000:117 and 270)
timingMatches(timing, time) == time >= timing.start /\ time < timing.end

RECURSIVE findIndexFrom(_, _, _)
findIndexFrom(timings, time, i) ==
    IF i > Len(timings) THEN -1
    ELSE IF timingMatches(timings[i], time) THEN i - 1
    ELSE findIndexFrom(timings, time, i + 1)

\* wordTimings.findIndex(t => currentTime >= t.start && currentTime < t.end)
findIndex(timings, time) == findIndexFrom(timings, time, 1)

----------------------------------------------------------------------------
\* Handlers of the ready screen, as functions of the part of the state they
\* touch, so that a handler calling another is the composition of the two

\* audioRef.current is the <audio> element while the ready screen is mounted,
\* and null otherwise
audioRef == appState = "ready"

World ==
    [sessions |-> sessions, isExporting |-> isExporting, isPlaying |-> isPlaying,
     activeWordIndex |-> activeWordIndex, error |-> error, audio |-> audio,
     audioRef |-> audioRef]

Becomes(w) ==
    /\ sessions' = w.sessions
    /\ isExporting' = w.isExporting
    /\ isPlaying' = w.isPlaying
    /\ activeWordIndex' = w.activeWordIndex
    /\ error' = w.error
    /\ audio' = w.audio

\* audioEl.pause()
pause(a) == [a EXCEPT !.paused = TRUE]

\* audioEl.currentTime = 0: the position moves at once, 'seeked' follows
seekToZero(a) == [a EXCEPT !.currentTime = 0, !.seeking = TRUE]

\* audioEl.play() of the transport button: from the end it restarts at 0
play(a) ==
    IF a.currentTime = a.duration
    THEN [a EXCEPT !.paused = FALSE, !.currentTime = 0, !.seeking = TRUE]
    ELSE [a EXCEPT !.paused = FALSE]

handleTimeUpdate(w, timings) ==
    LET currentWordIndex == findIndex(timings, w.audio.currentTime)
    IN  IF ~w.audioRef THEN w
        ELSE IF currentWordIndex # -1
        THEN [w EXCEPT !.activeWordIndex = currentWordIndex]
        ELSE w

handlePlaybackEnd(w) == [w EXCEPT !.isPlaying = FALSE, !.activeWordIndex = -1]

\* the onEnded and onPlay props of the <audio> element: React attaches them
\* while the element is mounted
onEnded(w) == IF w.audioRef THEN handlePlaybackEnd(w) ELSE w

onPlay(w) == IF w.audioRef THEN [w EXCEPT !.isPlaying = TRUE] ELSE w

togglePlayPause(w) ==
    IF ~w.audioRef THEN w
    ELSE [w EXCEPT !.audio = IF w.isPlaying THEN pause(@) ELSE play(@),
                   !.isPlaying = ~w.isPlaying]

handleStop(w) ==
    IF ~w.audioRef THEN w
    ELSE [w EXCEPT !.audio = seekToZero(pause(@)),
                   !.isPlaying = FALSE,
                   !.activeWordIndex = -1]

\* the closure state of one call of handleExportVideo
NewSession(requestTime) ==
    [requestTime |-> requestTime,   \* audioEl.currentTime read at line 348
     seekWait |-> FALSE,            \* once-listener for 'seeked' registered
     setup |-> "none",              \* how far exportProcess got
     recorder |-> "none",           \* MediaRecorder.state, "none" before creation
     stopQueued |-> FALSE,          \* recorder.stop() called, 'stop' not yet fired
     playPromise |-> "none",        \* promise of audioEl.play()
     playFailed |-> FALSE,          \* the catch handler has run
     endedListener |-> FALSE,       \* onAudioEnded registered
     raf |-> FALSE,                 \* a renderFrame callback is scheduled
     frames |-> 0,                  \* frames rendered so far
     startTime |-> -1,              \* audioEl.currentTime at recorder.start()
     audioCtx |-> "none",
     artifacts |-> 0,               \* files offered for download
     objectUrl |-> "none"]

\* exportProcess of session s.  ctxOk: canvas.getContext('2d') returned a
\* context; graphOk: AudioContext, createMediaElementSource, MediaRecorder
\* and recorder.start() did not throw.
exportProcess(w, s, ctxOk, graphOk) ==
    IF ~ctxOk
    THEN [w EXCEPT !.isExporting = FALSE,
                   !.sessions[s].seekWait = FALSE,
                   !.sessions[s].setup = "noContext"]
    ELSE IF ~graphOk
    THEN [w EXCEPT !.sessions[s].seekWait = FALSE,
                   !.sessions[s].setup = "threw"]
    ELSE [w EXCEPT !.sessions[s] =
              [@ EXCEPT !.seekWait = FALSE,
                        !.setup = "started",
                        !.audioCtx = "running",
                        !.endedListener = TRUE,
                        !.recorder = "recording",
                        !.startTime = w.audio.currentTime,
                        !.playPromise = "pending",
                        !.raf = TRUE]]

\* handleExportVideo that does not wait for 'seeked'
handleExportVideo_noSeekWait(w, ctxOk, graphOk) ==
    LET s == Len(w.sessions) + 1
        w1 == [w EXCEPT !.isExporting = TRUE,
                        !.sessions = Append(@, NewSession(w.audio.currentTime)),
                        !.audio = pause(@),
                        !.isPlaying = FALSE,
                        !.activeWordIndex = -1]
        w2 == exportProcess(w1, s, ctxOk, graphOk)
    IN  IF w1.audio.currentTime = 0
        THEN w2
        ELSE [w2 EXCEPT !.audio = seekToZero(@)]

\* handleExportVideo once its guard has passed
handleExportVideo(w, ctxOk, graphOk) ==
    LET s == Len(w.sessions) + 1
        w1 == [w EXCEPT !.isExporting = TRUE,
                        !.sessions = Append(@, NewSession(w.audio.currentTime)),
                        !.audio = pause(@),
                        !.isPlaying = FALSE,
                        !.activeWordIndex = -1]
    IN  IF w1.audio.currentTime = 0
        THEN exportProcess(w1, s, ctxOk, graphOk)
        ELSE [w1 EXCEPT !.sessions[s].seekWait = TRUE,
                        !.audio = seekToZero(@)]

\* recorder.stop() behind its guard recorder.state === 'recording'
stopIfRecording(session) ==
    IF session.recorder = "recording"
    THEN [session EXCEPT !.recorder = "inactive", !.stopQueued = TRUE]
    ELSE session

onAudioEnded(w, s) ==
    [w EXCEPT !.sessions[s] = [stopIfRecording(@) EXCEPT !.endedListener = FALSE]]

\* the catch handler of audioEl.play()
playCatch(w, s) ==
    [w EXCEPT !.sessions[s] =
                  [stopIfRecording(@) EXCEPT !.playPromise = "rejected",
                                             !.playFailed = TRUE],
              !.error = ErrPlayback,
              !.isExporting = FALSE]

\* recorder.onstop without cancelAnimationFrame: the render loop runs on
recorderOnStop_noCancel(w, s) ==
    handleStop([w EXCEPT !.sessions[s] =
                             [@ EXCEPT !.stopQueued = FALSE,
                                       !.artifacts = @ + 1,
                                       !.objectUrl = "revoked",
                                       !.audioCtx = "closed"],
                         !.isExporting = FALSE])

\* recorder.onstop
recorderOnStop(w, s) ==
    handleStop([w EXCEPT !.sessions[s] =
                             [@ EXCEPT !.stopQueued = FALSE,
                                       !.raf = FALSE,
                                       !.artifacts = @ + 1,
                                       !.objectUrl = "revoked",
                                       !.audioCtx = "closed"],
                         !.isExporting = FALSE])

\* the listeners of one event, run in registration order from session i on
RECURSIVE dispatchSeeked(_, _, _, _)
dispatchSeeked(w, i, ctxOk, graphOk) ==
    IF i > Len(w.sessions) THEN w
    ELSE dispatchSeeked(IF w.sessions[i].seekWait
                        THEN exportProcess(w, i, ctxOk, graphOk)
                        ELSE w,
                        i + 1, ctxOk, graphOk)

RECURSIVE dispatchEnded(_, _)
dispatchEnded(w, i) ==
    IF i > Len(w.sessions) THEN w
    ELSE dispatchEnded(IF w.sessions[i].endedListener THEN onAudioEnded(w, i)
                       ELSE w,
                       i + 1)

----------------------------------------------------------------------------
\* Events of the ready screen

ReconcileUnchanged ==
    UNCHANGED <<textInput, wordTimings, viewElements, newViewElements,
                textCursor, forEachIndex, foundAt, submitPc, submitVars,
                layoutVars, scrollVars>>

\* the playback position advanced and the element fired 'timeupdate'
TimeUpdate ==
    /\ ~audio.paused /\ ~audio.seeking
    /\ audio.currentTime < audio.duration
    /\ \E d \in 1..MaxStep :
          LET t == Min(audio.currentTime + d, audio.duration)
          IN  Becomes(handleTimeUpdate(
                  [World EXCEPT !.audio = [@ EXCEPT !.currentTime = t,
                                                    !.endedQueued = (t = audio.duration)]],
                  wordTimings))
    /\ ReconcileUnchanged

\* 'ended': playback stops, onEnded and the sessions' listeners run
Ended ==
    /\ audio.endedQueued
    /\ Becomes(dispatchEnded(
           onEnded([World EXCEPT !.audio = [pause(@) EXCEPT !.endedQueued = FALSE]]),
           1))
    /\ ReconcileUnchanged

\* 'seeked': the seek completed, the once-listeners run
Seeked ==
    /\ audio.seeking
    /\ \E ctxOk, graphOk \in BOOLEAN :
          Becomes(dispatchSeeked([World EXCEPT !.audio.seeking = FALSE], 1,
                                 ctxOk, graphOk))
    /\ ReconcileUnchanged

\* the buttons under the text are rendered on the ready screen and disabled
\* while isExporting
controlsEnabled == appState = "ready" /\ ~isExporting

ClickPlayPause ==
    /\ controlsEnabled
    /\ Becomes(togglePlayPause(World))
    /\ ReconcileUnchanged

ClickStop ==
    /\ controlsEnabled
    /\ Becomes(handleStop(World))
    /\ ReconcileUnchanged

\* the export button; the handler returns at once when there are no timings
\* or an export is running
ClickExport ==
    /\ controlsEnabled
    /\ Len(wordTimings) > 0
    /\ Len(sessions) < MaxSessions
    /\ \E ctxOk, graphOk \in BOOLEAN :
          Becomes(handleExportVideo(World, ctxOk, graphOk))
    /\ ReconcileUnchanged

\* audioEl.play() of session s started playback: 'play' fires, onPlay runs
PlayStarted(s) ==
    /\ sessions[s].playPromise = "pending"
    /\ Becomes(onPlay([World EXCEPT !.sessions[s].playPromise = "resolved",
                                    !.audio.paused = FALSE]))
    /\ ReconcileUnchanged

\* audioEl.play() of session s was rejected
PlayRejected(s) ==
    /\ sessions[s].playPromise = "pending"
    /\ Becomes(playCatch(World, s))
    /\ ReconcileUnchanged

\* frames rendered by the sessions from the i-th on
RECURSIVE FramesRendered(_, _)
FramesRendered(ss, i) ==
    IF i > Len(ss) THEN 0 ELSE ss[i].frames + FramesRendered(ss, i + 1)

\* one animation frame of session s; the model renders MaxFrames frames in all
RenderFrame(s) ==
    /\ sessions[s].raf
    /\ FramesRendered(sessions, 1) < MaxFrames
    /\ Becomes([World EXCEPT !.sessions[s].frames = @ + 1])
    /\ ReconcileUnchanged

\* the recorder of session s fires 'stop'
RecorderStop(s) ==
    /\ sessions[s].stopQueued
    /\ Becomes(recorderOnStop(World, s))
    /\ ReconcileUnchanged

\* "Start Over": back to the empty form
handleResetApp ==
    /\ appState' = "input"
    /\ audioFile' = FALSE
    /\ textInput' = <<>>
    /\ wordTimings' = <<>>
    /\ viewElements' = <<>>
    /\ error' = NoError
    /\ isPlaying' = FALSE
    /\ activeWordIndex' = -1

\* the ready screen is unmounted with it: the <audio> element leaves the
\* document, which pauses it, and lives on in the closures of the sessions
ClickReset ==
    /\ controlsEnabled
    /\ handleResetApp
    /\ audio' = pause(audio)
    /\ UNCHANGED <<sessions, isExporting, oracle, response, newViewElements,
                   textCursor, forEachIndex, foundAt, submitPc, layoutVars,
                   scrollVars>>

\* the timing of the word of the transcript "a "; the audio runs on after it
ReadyTimings == TimingsOf(<< <<"a">> >>)

\* the whole reconciliation loop of handleSubmit, from timing i on
RECURSIVE reconcileFrom(_, _, _, _)
reconcileFrom(text, timings, i, st) ==
    IF i > Len(timings)
    THEN [st EXCEPT !.elems = remainingWhitespaceElements(text, st.elems, st.cursor)]
    ELSE LET r == forEachCallback(text, st.elems, st.cursor, timings[i], i - 1)
         IN  reconcileFrom(text, timings, i + 1,
                           [elems |-> r.elems, cursor |-> r.cursor,
                            foundAt |-> Append(st.foundAt, r.wordStartIndex)])

\* the ready screen as handleSubmit leaves it for a transcript and its timings
InitReady(text, timings, duration) ==
    LET r == reconcileFrom(text, timings, 1,
                           [elems |-> <<>>, cursor |-> 0, foundAt |-> <<>>])
    IN  /\ textInput = text
        /\ wordTimings = timings
        /\ viewElements = r.elems
        /\ newViewElements = r.elems
        /\ textCursor = r.cursor
        /\ forEachIndex = Len(timings)
        /\ foundAt = r.foundAt
        /\ submitPc = "ready"
        /\ isPlaying = FALSE
        /\ isExporting = FALSE
        /\ activeWordIndex = -1
        /\ error = NoError
        /\ audio = NewAudio(duration)
        /\ sessions = <<>>
        /\ appState = "ready"
        /\ audioFile = TRUE
        /\ oracle = "idle"
        /\ response = NoResponse
        /\ NoExport

Init == InitReady(<<"a", " ">>, ReadyTimings, 2)

Next ==
    \/ TimeUpdate
    \/ Ended
    \/ Seeked
    \/ ClickPlayPause
    \/ ClickStop
    \/ ClickExport
    \/ ClickReset
    \/ \E s \in 1..Len(sessions) : PlayStarted(s)
    \/ \E s \in 1..Len(sessions) : PlayRejected(s)
    \/ \E s \in 1..Len(sessions) : RenderFrame(s)
    \/ \E s \in 1..Len(sessions) : RecorderStop(s)

Spec == Init /\ [][Next]_vars

\* Playback alone, for every timing list the alignment service can return
TimingLists ==
    LET T == [word : {<<"a">>}, start : 0..MaxTime, end : 0..MaxTime]
    IN  SeqsUpTo(T, MaxTimings)

InitTracker ==
    \E timings \in TimingLists :
        InitReady([i \in 1..Len(timings) |-> "a"], timings, MaxTime)

NextTracker ==
    \/ TimeUpdate
    \/ Ended
    \/ Seeked
    \/ ClickPlayPause
    \/ ClickStop

SpecTracker == InitTracker /\ [][NextTracker]_vars

----------------------------------------------------------------------------
\* The input screen: handleSubmit from the click to the settled alignment call

\* the characters String.prototype.trim removes, among those of the model
WhiteSpace == {" ", "\n"}

\* String.prototype.trim
trim(s) ==
    LET kept == {i \in 1..Len(s) : s[i] \notin WhiteSpace}
    IN  IF kept = {} THEN <<>>
        ELSE SubSeq(s, CHOOSE i \in kept : \A j \in kept : i <= j,
                       CHOOSE i \in kept : \A j \in kept : i >= j)

\* validation that tests the transcript without trimming it
submitRejected_untrimmed(file, text) == ~file \/ text = <<>>

\* the validation of handleSubmit: !audioFile || !textInput.trim()
submitRejected(file, text) == ~file \/ trim(text) = <<>>

\* What the alignment call can settle with: the request failed or the text
\* was not JSON, the JSON was not an array, or an array of objects, each with
\* any of the fields word, start and end
TimingFields == {"word", "start", "end"}

TimingWith(fields, i) ==
    [k \in fields |-> IF k = "word" THEN <<"a">>
                      ELSE IF k = "start" THEN i - 1
                      ELSE i]

Responses ==
    {[kind |-> "failed", timings |-> <<>>], [kind |-> "notArray", timings |-> <<>>]}
    \cup {[kind |-> "array",
           timings |-> [i \in 1..Len(fs) |-> TimingWith(fs[i], i)]] :
             fs \in SeqsUpTo(SUBSET TimingFields, MaxTimings)}

\* generateWordTimings from the parsed response on: throws, or returns the
\* array after looking at its first element
generateWordTimings(resp) ==
    IF resp.kind # "array" THEN [ok |-> FALSE, timings |-> <<>>]
    ELSE IF /\ Len(resp.timings) > 0
            /\ ~(TimingFields \subseteq DOMAIN resp.timings[1])
         THEN [ok |-> FALSE, timings |-> <<>>]
         ELSE [ok |-> TRUE, timings |-> resp.timings]

InitSubmit ==
    /\ appState = "input"
    /\ audioFile = FALSE
    /\ textInput = <<>>
    /\ wordTimings = <<>>
    /\ viewElements = <<>>
    /\ isPlaying = FALSE
    /\ isExporting = FALSE
    /\ activeWordIndex = -1
    /\ error = NoError
    /\ newViewElements = <<>>
    /\ textCursor = 0
    /\ forEachIndex = 0
    /\ foundAt = <<>>
    /\ submitPc = "idle"
    /\ audio = NewAudio(0)
    /\ sessions = <<>>
    /\ oracle = "idle"
    /\ response = NoResponse
    /\ NoExport

FormShown == appState \in {"input", "error"}

\* onChange of the textarea
ChangeText ==
    /\ FormShown
    /\ \E text \in SeqsUpTo(Chars, MaxLen) :
          /\ text # textInput
          /\ textInput' = text
    /\ error' = NoError
    /\ UNCHANGED <<wordTimings, viewElements, isPlaying, isExporting,
                   activeWordIndex, newViewElements, textCursor, forEachIndex,
                   foundAt, submitPc, audio, sessions, appState, audioFile,
                   oracle, response, layoutVars, scrollVars>>

\* handleFileChange with a file chosen
ChangeFile ==
    /\ FormShown
    /\ audioFile' = TRUE
    /\ error' = NoError
    /\ UNCHANGED <<textInput, wordTimings, viewElements, isPlaying,
                   isExporting, activeWordIndex, newViewElements, textCursor,
                   forEachIndex, foundAt, submitPc, audio, sessions, appState,
                   oracle, response, layoutVars, scrollVars>>

\* handleSubmit up to its first await, with the response the call it makes
\* is going to get.  It is applied in every state of the form; the button
\* that calls it is enabled when the validation passes.
Submit ==
    /\ FormShown
    /\ IF submitRejected(audioFile, textInput)
       THEN /\ error' = ErrProvideBoth
            /\ UNCHANGED <<appState, oracle, response, submitPc>>
       ELSE /\ appState' = "loading"
            /\ error' = NoError
            /\ oracle' = "pending"
            /\ response' \in Responses
            /\ submitPc' = "await"
    /\ UNCHANGED <<textInput, wordTimings, viewElements, isPlaying,
                   isExporting, activeWordIndex, newViewElements, textCursor,
                   forEachIndex, foundAt, audio, sessions, audioFile,
                   layoutVars, scrollVars>>

\* the alignment call settles and handleSubmit runs on to its end: the
\* reconciliation and 'ready', or the catch block and 'error'
OracleSettles ==
    /\ oracle = "pending"
    /\ LET g == generateWordTimings(response)
           r == reconcileFrom(textInput, g.timings, 1,
                              [elems |-> <<>>, cursor |-> 0, foundAt |-> <<>>])
       IN  IF g.ok
           THEN /\ wordTimings' = g.timings
                /\ newViewElements' = r.elems
                /\ textCursor' = r.cursor
                /\ forEachIndex' = Len(g.timings)
                /\ foundAt' = r.foundAt
                /\ viewElements' = r.elems
                /\ appState' = "ready"
                /\ submitPc' = "ready"
                /\ error' = error
           ELSE /\ error' = ErrSyncFailed
                /\ appState' = "error"
                /\ submitPc' = "idle"
                /\ UNCHANGED <<wordTimings, newViewElements, textCursor,
                               forEachIndex, foundAt, viewElements>>
    /\ oracle' = "idle"
    /\ response' = NoResponse
    /\ UNCHANGED <<textInput, isPlaying, isExporting, activeWordIndex, audio,
                   sessions, audioFile, layoutVars, scrollVars>>

NextSubmit == ChangeText \/ ChangeFile \/ Submit \/ OracleSettles

SpecSubmit == InitSubmit /\ [][NextSubmit]_vars

----------------------------------------------------------------------------
\* The layout loop of exportProcess (part_000:155-215)

\* lengths are whole numbers of twentieths of a pixel
Px(n) == 20 * n

\* the canvas, in pixels
FONT_SIZE == 48
PADDING == 60
CANVAS_WIDTH == 1920
CANVAS_HEIGHT == 1080
\* FONT_SIZE * 1.8, in twentieths of a pixel
LINE_HEIGHT == (Px(FONT_SIZE) * 18) \div 10

\* widths ctx.measureText can give a letter and a blank, in pixels
LetterWidths == {800, 1000}
BlankWidth == 300

\* transcripts with line breaks
LayoutChars == Chars \cup {"\n"}

\* ctx.measureText(text).width for the metrics m: the widths of the
\* characters added up
RECURSIVE measureText(_, _)
measureText(m, text) ==
    IF text = <<>> THEN 0
    ELSE m[Head(text)] + measureText(m, Tail(text))

\* the words of a transcript, as the alignment service is asked to return
\* them: its runs of characters other than whitespace
RECURSIVE wordsOf(_, _)
wordsOf(text, word) ==
    IF text = <<>>
    THEN IF word = <<>> THEN <<>> ELSE <<word>>
    ELSE IF Head(text) \in WhiteSpace
         THEN (IF word = <<>> THEN <<>> ELSE <<word>>) \o wordsOf(Tail(text), <<>>)
         ELSE wordsOf(Tail(text), Append(word, Head(text)))

\* the cursor moved to the right edge of the next line
wrap(l) == [l EXCEPT !.currentY = @ + LINE_HEIGHT,
                     !.currentX = Px(CANVAS_WIDTH) - Px(PADDING)]

\* word branch that wraps without moving the cursor back to the right edge
layoutWord_noReset(l, m, element) ==
    LET width == measureText(m, element.word)
        at == IF l.currentX - width < Px(PADDING)
              THEN [l EXCEPT !.currentY = @ + LINE_HEIGHT]
              ELSE l
    IN  [at EXCEPT !.wordLayouts =
                       Append(@, [word |-> element.word, x |-> at.currentX,
                                  y |-> at.currentY, width |-> width,
                                  originalIndex |-> element.originalIndex]),
                   !.currentX = @ - width]

\* word branch that never wraps
layoutWord_noWrap(l, m, element) ==
    LET width == measureText(m, element.word)
    IN  [l EXCEPT !.wordLayouts =
                      Append(@, [word |-> element.word, x |-> l.currentX,
                                 y |-> l.currentY, width |-> width,
                                 originalIndex |-> element.originalIndex]),
                  !.currentX = @ - width]

\* the word branch of the loop over viewElements
layoutWord(l, m, element) ==
    LET width == measureText(m, element.word)
        at == IF l.currentX - width < Px(PADDING) THEN wrap(l) ELSE l
    IN  [at EXCEPT !.wordLayouts =
                       Append(@, [word |-> element.word, x |-> at.currentX,
                                  y |-> at.currentY, width |-> width,
                                  originalIndex |-> element.originalIndex]),
                   !.currentX = @ - width]

\* one character of the whitespace branch
layoutChar(l, m, char) ==
    IF char = "\n" THEN wrap(l)
    ELSE LET width == measureText(m, <<char>>)
         IN  IF l.currentX - width < Px(PADDING)
             THEN wrap(l)
             ELSE [l EXCEPT !.currentX = @ - width]

Layout == [currentX |-> currentX, currentY |-> currentY, wordLayouts |-> wordLayouts]

LayoutBecomes(l) ==
    /\ currentX' = l.currentX
    /\ currentY' = l.currentY
    /\ wordLayouts' = l.wordLayouts

\* lastLineY and totalTextHeight
lastLineY(layouts) ==
    IF Len(layouts) > 0
    THEN CHOOSE y \in {layouts[i].y : i \in 1..Len(layouts)} :
             \A i \in 1..Len(layouts) : layouts[i].y <= y
    ELSE 0

totalTextHeight(layouts) == lastLineY(layouts) + Px(PADDING)

\* handleExportVideo has been clicked on the ready screen of a transcript and
\* exportProcess has reached the loop
InitLayout ==
    /\ \E text \in SeqsUpTo(LayoutChars, MaxLen) :
          LET timings == TimingsOf(wordsOf(text, <<>>))
              r == reconcileFrom(text, timings, 1,
                                 [elems |-> <<>>, cursor |-> 0, foundAt |-> <<>>])
          IN  /\ textInput = text
              /\ wordTimings = timings
              /\ viewElements = r.elems
              /\ newViewElements = r.elems
              /\ textCursor = r.cursor
              /\ forEachIndex = Len(timings)
              /\ foundAt = r.foundAt
              /\ response = NoResponse
              /\ audio = NewAudio(Len(timings))
    /\ submitPc = "ready"
    /\ appState = "ready"
    /\ audioFile = TRUE
    /\ oracle = "idle"
    /\ isPlaying = FALSE
    /\ isExporting = TRUE
    /\ activeWordIndex = -1
    /\ error = NoError
    /\ sessions = <<NewSession(0)>>
    /\ \E w \in LetterWidths :
          charWidth = [c \in Chars \ WhiteSpace |-> Px(w)] @@ (" " :> Px(BlankWidth))
    /\ layoutIndex = 0
    /\ charIndex = 0
    /\ currentX = Px(CANVAS_WIDTH) - Px(PADDING)
    /\ currentY = Px(PADDING) + Px(FONT_SIZE)
    /\ wordLayouts = <<>>
    /\ currentScrollY = 0
    /\ targetScrollY = 0
    /\ highlighted = {}

LayoutUnchanged ==
    UNCHANGED <<textInput, wordTimings, viewElements, isPlaying, isExporting,
                activeWordIndex, error, newViewElements, textCursor,
                forEachIndex, foundAt, submitPc, audio, sessions, submitVars,
                charWidth, scrollVars>>

\* the loop is at a word element: one call of the forEach callback
LayoutWordStep ==
    /\ layoutIndex < Len(viewElements)
    /\ viewElements[layoutIndex + 1].type = "word"
    /\ LayoutBecomes(layoutWord(Layout, charWidth, viewElements[layoutIndex + 1]))
    /\ layoutIndex' = layoutIndex + 1
    /\ charIndex' = 0
    /\ LayoutUnchanged

\* the loop is inside a whitespace element: one turn of for (const char of ...)
LayoutCharStep ==
    /\ layoutIndex < Len(viewElements)
    /\ viewElements[layoutIndex + 1].type = "whitespace"
    /\ LET content == viewElements[layoutIndex + 1].content
       IN  /\ LayoutBecomes(layoutChar(Layout, charWidth, content[charIndex + 1]))
           /\ IF charIndex + 1 = Len(content)
              THEN layoutIndex' = layoutIndex + 1 /\ charIndex' = 0
              ELSE layoutIndex' = layoutIndex /\ charIndex' = charIndex + 1
    /\ LayoutUnchanged

NextLayout == LayoutWordStep \/ LayoutCharStep

SpecLayout == InitLayout /\ [][NextLayout]_vars

----------------------------------------------------------------------------
\* The scroll of renderFrame (part_000:264-296)

\* LERP_FACTOR = 0.08, in hundredths
LERP_FACTOR == 8

\* lines of the transcript laid out for the scroll; more than fit the canvas
ScrollLines == 12

Abs(n) == IF n < 0 THEN -n ELSE n

\* (targetScrollY - currentScrollY) * LERP_FACTOR, to the nearest twentieth
\* of a pixel.  A remaining distance of half a pixel or more is 10 twentieths
\* or more, and its product with the factor rounds to at least one.
scaled(distance) ==
    IF distance >= 0
    THEN (distance * LERP_FACTOR + 50) \div 100
    ELSE -((-distance * LERP_FACTOR + 50) \div 100)

\* interpolation that never snaps
lerp_noSnap(current, target) == current + scaled(target - current)

\* currentScrollY after the interpolation and the snap
lerp(current, target) ==
    LET moved == current + scaled(target - current)
    IN  IF 2 * Abs(target - moved) < Px(1) THEN target ELSE moved

\* scroll block that does not clamp the target
scrollFrame_noClamp(sc, layouts, activeIndex) ==
    IF totalTextHeight(layouts) > Px(CANVAS_HEIGHT)
    THEN LET active == {i \in 1..Len(layouts) : layouts[i].originalIndex = activeIndex}
             aimed == IF active # {}
                      THEN layouts[CHOOSE i \in active : \A j \in active : i <= j].y
                               - Px(CANVAS_HEIGHT) \div 2
                      ELSE sc.targetScrollY
         IN  [targetScrollY |-> aimed,
              currentScrollY |-> lerp(sc.currentScrollY, aimed)]
    ELSE sc

\* scroll block that aims at the top when no word is active
scrollFrame_resetTarget(sc, layouts, activeIndex) ==
    IF totalTextHeight(layouts) > Px(CANVAS_HEIGHT)
    THEN LET active == {i \in 1..Len(layouts) : layouts[i].originalIndex = activeIndex}
             aimed == IF active # {}
                      THEN layouts[CHOOSE i \in active : \A j \in active : i <= j].y
                               - Px(CANVAS_HEIGHT) \div 2
                      ELSE 0
             maxScrollTop == totalTextHeight(layouts) - Px(CANVAS_HEIGHT)
             clamped == Max(0, Min(aimed, maxScrollTop))
         IN  [targetScrollY |-> clamped,
              currentScrollY |-> lerp(sc.currentScrollY, clamped)]
    ELSE sc

\* the scroll block of renderFrame for the word activeIndex
scrollFrame(sc, layouts, activeIndex) ==
    IF totalTextHeight(layouts) > Px(CANVAS_HEIGHT)
    THEN LET active == {i \in 1..Len(layouts) : layouts[i].originalIndex = activeIndex}
             aimed == IF active # {}
                      THEN layouts[CHOOSE i \in active : \A j \in active : i <= j].y
                               - Px(CANVAS_HEIGHT) \div 2
                      ELSE sc.targetScrollY
             maxScrollTop == totalTextHeight(layouts) - Px(CANVAS_HEIGHT)
             clamped == Max(0, Min(aimed, maxScrollTop))
         IN  [targetScrollY |-> clamped,
              currentScrollY |-> lerp(sc.currentScrollY, clamped)]
    ELSE sc

\* the draw loop of renderFrame: the layouts drawn on the highlight rectangle
highlightedLayouts(layouts, activeIndex) ==
    {i \in 1..Len(layouts) : layouts[i].originalIndex = activeIndex}

\* the whole loop over viewElements
RECURSIVE layoutContent(_, _, _)
layoutContent(l, m, content) ==
    IF content = <<>> THEN l
    ELSE layoutContent(layoutChar(l, m, Head(content)), m, Tail(content))

RECURSIVE layoutElements(_, _, _)
layoutElements(l, m, elems) ==
    IF elems = <<>> THEN l
    ELSE layoutElements(IF Head(elems).type = "word"
                        THEN layoutWord(l, m, Head(elems))
                        ELSE layoutContent(l, m, Head(elems).content),
                        m, Tail(elems))

\* a transcript of ScrollLines lines with a word on the first and on the last
ScrollText ==
    [i \in 1..(ScrollLines + 1) |->
        IF i = 1 \/ i = ScrollLines + 1 THEN "a" ELSE "\n"]

\* its timings, in the order of the words or against it, one tick each with
\* a tick of silence before each word and after the last
ScrollTimings(order) ==
    LET words == wordsOf(ScrollText, <<>>)
    IN  [i \in 1..Len(words) |->
            LET k == IF order = "forward" THEN i ELSE Len(words) + 1 - i
            IN  [word |-> words[i], start |-> 2 * k - 1, end |-> 2 * k]]

\* an export of the transcript has started: layout done, render loop scheduled
InitScroll ==
    /\ \E order \in {"forward", "backward"}, width \in LetterWidths :
          LET timings == ScrollTimings(order)
              r == reconcileFrom(ScrollText, timings, 1,
                                 [elems |-> <<>>, cursor |-> 0, foundAt |-> <<>>])
              m == [c \in Chars \ WhiteSpace |-> Px(width)] @@ (" " :> Px(BlankWidth))
              l == layoutElements([currentX |-> Px(CANVAS_WIDTH) - Px(PADDING),
                                   currentY |-> Px(PADDING) + Px(FONT_SIZE),
                                   wordLayouts |-> <<>>], m, r.elems)
              w == handleExportVideo(
                       [sessions |-> <<>>, isExporting |-> FALSE,
                        isPlaying |-> FALSE, activeWordIndex |-> -1,
                        error |-> NoError, audio |-> NewAudio(2 * Len(timings)),
                        audioRef |-> TRUE],
                       TRUE, TRUE)
          IN  /\ textInput = ScrollText
              /\ wordTimings = timings
              /\ viewElements = r.elems
              /\ newViewElements = r.elems
              /\ textCursor = r.cursor
              /\ forEachIndex = Len(timings)
              /\ foundAt = r.foundAt
              /\ response = NoResponse
              /\ charWidth = m
              /\ layoutIndex = Len(r.elems)
              /\ charIndex = 0
              /\ currentX = l.currentX
              /\ currentY = l.currentY
              /\ wordLayouts = l.wordLayouts
              /\ sessions = w.sessions
              /\ isExporting = w.isExporting
              /\ isPlaying = w.isPlaying
              /\ activeWordIndex = w.activeWordIndex
              /\ error = w.error
              /\ audio = w.audio
    /\ submitPc = "ready"
    /\ appState = "ready"
    /\ audioFile = TRUE
    /\ oracle = "idle"
    /\ currentScrollY = 0
    /\ targetScrollY = 0
    /\ highlighted = {}

\* renderFrame: the playback position has moved on to t, the scroll follows
\* the word active at t
ScrollFrame ==
    /\ \E s \in 1..Len(sessions) : sessions[s].raf
    /\ \E t \in audio.currentTime..audio.duration :
          /\ audio' = [audio EXCEPT !.currentTime = t]
          /\ LET sc == scrollFrame([currentScrollY |-> currentScrollY,
                                    targetScrollY |-> targetScrollY],
                                   wordLayouts, findIndex(wordTimings, t))
             IN  /\ currentScrollY' = sc.currentScrollY
                 /\ targetScrollY' = sc.targetScrollY
          /\ highlighted' = highlightedLayouts(wordLayouts, findIndex(wordTimings, t))
    /\ UNCHANGED <<textInput, wordTimings, viewElements, isPlaying,
                   isExporting, activeWordIndex, error, newViewElements,
                   textCursor, forEachIndex, foundAt, submitPc, sessions,
                   submitVars, layoutVars>>

NextScroll == ScrollFrame

SpecScroll == InitScroll /\ [][NextScroll]_vars

----------------------------------------------------------------------------
\* Properties of the reconciliation

\* w occurs in text at 0-based position p
OccursAt(text, w, p) ==
    /\ p >= 0
    /\ p + Len(w) <= Len(text)
    /\ \A k \in 1..Len(w) : text[p + k] = w[k]

ElementContent(e) == IF e.type = "word" THEN e.word ELSE e.content

RECURSIVE ConcatContents(_)
ConcatContents(elems) ==
    IF elems = <<>> THEN <<>>
    ELSE ElementContent(Head(elems)) \o ConcatContents(Tail(elems))

AllFound == \A i \in 1..Len(foundAt) : foundAt[i] # -1

\* C1: when every timing's word was found at or after the running cursor,
\* the contents of the emitted segments, concatenated in order, are the
\* transcript.
C1_RoundTrip ==
    (submitPc = "ready" /\ AllFound) => ConcatContents(viewElements) = textInput

C1_Witness ==
    /\ submitPc = "ready"
    /\ AllFound
    /\ Len(wordTimings) = 2
    /\ \A i \in 1..2 : wordTimings[i].word # <<>>
    /\ Len(viewElements) >= 4
    /\ ConcatContents(viewElements) = textInput

\* C7: a timing whose word does not occur at or after the cursor is emitted
\* as a bare Word segment with nothing in front of it, leaves the cursor
\* where it was, and the loop goes on to the next timing.
C7_NotFoundIsBareWord ==
    [][(/\ submitPc = "forEach"
        /\ forEachIndex < Len(wordTimings)
        /\ ~\E p \in textCursor..Len(textInput) :
               OccursAt(textInput, wordTimings[forEachIndex + 1].word, p))
       => (/\ Len(newViewElements') = Len(newViewElements) + 1
           /\ SubSeq(newViewElements', 1, Len(newViewElements)) = newViewElements
           /\ newViewElements'[Len(newViewElements')].type = "word"
           /\ newViewElements'[Len(newViewElements')].word =
                  wordTimings[forEachIndex + 1].word
           /\ textCursor' = textCursor
           /\ forEachIndex' = forEachIndex + 1
           /\ submitPc' = "forEach")]_vars

\* a word that occurs only before the cursor was missed, and the timing after
\* it was still bound
C7_Witness ==
    /\ Len(foundAt) = 2
    /\ foundAt[1] # -1
    /\ foundAt[2] = -1
    /\ textCursor > 0
    /\ \E p \in 0..Len(textInput) : OccursAt(textInput, wordTimings[2].word, p)
    /\ newViewElements[Len(newViewElements)].type = "word"

\* end of the last word bound before timing j, 0 when there is none
PreviousBoundEnd(j) ==
    LET bound == {i \in 1..(j - 1) : foundAt[i] # -1}
    IN  IF bound = {} THEN 0
        ELSE LET last == CHOOSE i \in bound : \A k \in bound : k <= i
             IN  foundAt[last] + Len(wordTimings[last].word)

\* C8: each found timing is bound to the first occurrence of its word at or
\* after the end of the previously bound word, so the bound ranges of two
\* timings never overlap.
C8_SuccessiveOccurrences ==
    \A j \in 1..Len(foundAt) :
        foundAt[j] # -1 =>
            /\ OccursAt(textInput, wordTimings[j].word, foundAt[j])
            /\ foundAt[j] >= PreviousBoundEnd(j)
            /\ \A p \in PreviousBoundEnd(j)..(foundAt[j] - 1) :
                   ~OccursAt(textInput, wordTimings[j].word, p)
            /\ \A i \in 1..(j - 1) :
                   foundAt[i] # -1 =>
                       foundAt[i] + Len(wordTimings[i].word) <= foundAt[j]

\* "a a" style: the same word twice, the second bound after the first
C8_Witness ==
    /\ Len(foundAt) = 2
    /\ wordTimings[1].word = wordTimings[2].word
    /\ wordTimings[1].word # <<>>
    /\ foundAt[1] # -1
    /\ foundAt[2] >= foundAt[1] + Len(wordTimings[1].word)

WordElementsOf(elems) == SelectSeq(elems, LAMBDA e : e.type = "word")

\* C9: the Word segments come out in timing order, and the originalIndex of
\* each is the index of its timing in the input list, found or not.
C9_OriginalIndex ==
    LET ws == WordElementsOf(newViewElements)
    IN  /\ Len(ws) = forEachIndex
        /\ \A k \in 1..Len(ws) :
               /\ ws[k].originalIndex = k - 1
               /\ ws[k].word = wordTimings[k].word
               /\ ws[k].start = wordTimings[k].start
               /\ ws[k].end = wordTimings[k].end
        /\ (submitPc = "ready" =>
               /\ forEachIndex = Len(wordTimings)
               /\ WordElementsOf(viewElements) = ws)

\* a whitespace segment sits in front of the second word; the first was
\* not found
C9_Witness ==
    /\ submitPc = "ready"
    /\ Len(wordTimings) = 2
    /\ foundAt[1] = -1
    /\ foundAt[2] # -1
    /\ Len(viewElements) >= 3
    /\ viewElements[3].type = "word"
    /\ viewElements[3].originalIndex = 1

\* the segments left when the Word segments of not-found timings are removed
FoundOrWhitespace(elems) ==
    SelectSeq(elems, LAMBDA e : e.type = "whitespace" \/ foundAt[e.originalIndex + 1] # -1)

\* C19: for every transcript and timing list, the output without the Word
\* segments of not-found timings concatenates to exactly the transcript.
C19_FoundAndWhitespaceCoverTranscript ==
    submitPc = "ready" => ConcatContents(FoundOrWhitespace(viewElements)) = textInput

\* a miss between a bound word and the tail of the transcript
C19_Witness ==
    /\ submitPc = "ready"
    /\ Len(foundAt) = 2
    /\ foundAt[1] # -1
    /\ foundAt[2] = -1
    /\ wordTimings[1].word # <<>>
    /\ viewElements[Len(viewElements)].type = "whitespace"
    /\ ConcatContents(viewElements) # textInput

\* C20: throughout reconciliation the text cursor never decreases and stays
\* within 0..Len(transcript), whatever the words are (out of order, absent,
\* empty).
C20_CursorMonotoneInRange ==
    [][/\ textCursor' >= textCursor
       /\ textCursor' >= 0
       /\ textCursor' <= Len(textInput')]_vars

\* an empty word and an absent word were processed after the cursor had
\* reached the end of the transcript
C20_Witness ==
    /\ Len(foundAt) = 2
    /\ wordTimings[1].word # <<>>
    /\ foundAt[1] # -1
    /\ textCursor = Len(textInput)
    /\ wordTimings[2].word = <<>>
    /\ foundAt[2] = textCursor

----------------------------------------------------------------------------
\* Properties of the playback position tracker

\* timings (1-based) whose half-open interval holds the time
ActiveAt(timings, time) ==
    {i \in 1..Len(timings) : timings[i].start <= time /\ time < timings[i].end}

\* C5: after a time-update the tracked active word index is -1 whenever the
\* playback time lies in no timing's [start, end): in a gap no word is
\* active.
C5_GapClearsActiveWord ==
    [][TimeUpdate =>
          (ActiveAt(wordTimings, audio'.currentTime) = {} => activeWordIndex' = -1)]_vars

\* C6: activeIndex(time, timings) is the smallest index whose timing has
\* start <= time < end, and none (-1) when there is no such timing; for a
\* single timing with start <= end it is 0 on [start, end) and none at end.
C6_ActiveIndexFirstMatch ==
    \A time \in 0..MaxTime :
        LET r == findIndex(wordTimings, time)
            M == ActiveAt(wordTimings, time)
        IN  /\ M = {} => r = -1
            /\ M # {} => (r + 1 \in M /\ \A i \in M : r + 1 <= i)
            /\ (Len(wordTimings) = 1 /\ wordTimings[1].start <= wordTimings[1].end) =>
                   /\ time = wordTimings[1].end => r = -1
                   /\ (wordTimings[1].start <= time /\ time < wordTimings[1].end) => r = 0

\* two overlapping timings hold the playback time and the time-update
\* picked the first of them
C6_Witness ==
    /\ Len(wordTimings) = 2
    /\ audio.currentTime > 0
    /\ ActiveAt(wordTimings, audio.currentTime) = {1, 2}
    /\ wordTimings[1] # wordTimings[2]
    /\ activeWordIndex = 0

----------------------------------------------------------------------------
\* Properties of the export

\* from the request until the recorder's stop handler has run
InProgress(x) == x.seekWait \/ x.recorder = "recording" \/ x.stopQueued

\* the session has captured something or started playback
Capturing(x) ==
    x.recorder # "none" \/ x.playPromise # "none" \/ x.raf \/ x.frames > 0

\* C2: at most one export session is in progress: while a session is
\* Recording or Finalizing (exporting flag set, until the stop handler's
\* cleanup has run) a start-export request starts no second session.
C2_SingleExportSession ==
    Cardinality({s \in 1..Len(sessions) : InProgress(sessions[s])}) <= 1

\* C3: the exporting flag is cleared on every exit path of an export
\* session: once no session has anything left to run, the flag is not set.
C3_FlagClearedOnExit ==
    (\A s \in 1..Len(sessions) :
         ~InProgress(sessions[s]) /\ sessions[s].playPromise # "pending")
        => ~isExporting

\* C4: after a playback failure the recorder is stopped, the error is set
\* and no file is offered for download for that session.
C4_NoArtifactAfterPlayFailure ==
    \A s \in 1..Len(sessions) :
        sessions[s].playFailed =>
            /\ sessions[s].recorder # "recording"
            /\ error = ErrPlayback
            /\ sessions[s].artifacts = 0

\* C10: a session requested with a non-zero playback clock starts its
\* recorder, playback and render loop only in the step in which 'seeked'
\* fires, and then the clock is at zero.
C10_NoCaptureBeforeSeeked ==
    [][\A s \in 1..Len(sessions') :
          (/\ sessions'[s].requestTime # 0
           /\ Capturing(sessions'[s])
           /\ ~(s <= Len(sessions) /\ Capturing(sessions[s])))
          => (/\ s <= Len(sessions)
              /\ sessions[s].seekWait
              /\ audio.seeking /\ ~audio'.seeking
              /\ audio'.currentTime = 0
              /\ sessions'[s].startTime = 0)]_vars

\* a session requested in mid-playback has rendered a frame
C10_Witness ==
    \E s \in 1..Len(sessions) :
        /\ sessions[s].requestTime # 0
        /\ sessions[s].frames > 0
        /\ sessions[s].startTime = 0

\* the setup of session s threw in this step
SetupThrew(s) ==
    /\ s <= Len(sessions')
    /\ sessions'[s].setup = "threw"
    /\ (s > Len(sessions) \/ sessions[s].setup # "threw")

\* C11: when the audio graph or the recorder cannot be set up, the export
\* alone is aborted: the exporting flag is cleared, so the transport and
\* export controls are enabled again.
C11_SetupFailureAbortsExportOnly ==
    [][\A s \in 1..MaxSessions : SetupThrew(s) => ~isExporting']_vars

\* recorder.onstop of the session has run
StopHandlerRan(x) == x.audioCtx = "closed"

\* the session's onAudioEnded has run: the audio ended while it played
EndedNaturally(x) == x.playPromise = "resolved" /\ ~x.endedListener

\* C16 as stated: once the audio has ended and the session has left
\* Recording, no further frame is rendered for it.
C16_NoFrameAfterEnded ==
    [][\A s \in 1..Len(sessions) :
          EndedNaturally(sessions[s]) => sessions'[s].frames = sessions[s].frames]_vars

\* C16 amended: 'ended' stops the recorder if it is recording, and the render
\* loop stops when the recorder's stop handler runs: no frame is rendered for
\* the session after that handler.
C16_NoFrameAfterStopHandler ==
    [][\A s \in 1..Len(sessions) :
          /\ (sessions[s].endedListener /\ ~sessions'[s].endedListener)
                 => sessions'[s].recorder = "inactive"
          /\ StopHandlerRan(sessions[s])
                 => sessions'[s].frames = sessions[s].frames]_vars

\* the audio ended, the stop handler ran, and the loop had frames left
C16_Witness ==
    \E s \in 1..Len(sessions) :
        /\ EndedNaturally(sessions[s])
        /\ StopHandlerRan(sessions[s])
        /\ sessions[s].frames < MaxFrames
        /\ ~sessions[s].raf

\* C17: when the recorder delivers its final output, exactly one artifact is
\* assembled for the session, the audio graph and the object URL are
\* released, playback is reset (not playing, no active word, clock at zero)
\* and the exporting flag is cleared.
C17_FinalizingToIdle ==
    [][\A s \in 1..Len(sessions) :
          (sessions[s].stopQueued /\ ~sessions'[s].stopQueued) =>
              /\ sessions[s].artifacts = 0
              /\ sessions'[s].artifacts = 1
              /\ sessions'[s].objectUrl = "revoked"
              /\ sessions'[s].audioCtx = "closed"
              /\ ~InProgress(sessions'[s])
              /\ ~isPlaying'
              /\ activeWordIndex' = -1
              /\ audio'.paused
              /\ audio'.currentTime = 0
              /\ ~isExporting']_vars

\* C24: while an export session is in progress (from the request until the
\* recorder's stop handler has finished its cleanup) the reset, stop and
\* play/pause buttons are not available, so no reset or transport action
\* interleaves with an export in flight.
C24_ControlsLockedDuringExport ==
    (\E s \in 1..Len(sessions) : InProgress(sessions[s])) => ~controlsEnabled

----------------------------------------------------------------------------
\* Properties of the input screen

\* the response is not an array, or an element of it lacks a field
Malformed(resp) ==
    \/ resp.kind = "notArray"
    \/ /\ resp.kind = "array"
       /\ \E i \in 1..Len(resp.timings) :
             ~(TimingFields \subseteq DOMAIN resp.timings[i])

\* C15: when the alignment call settles with a malformed response, whichever
\* element is the malformed one, the application is in its error state with
\* the synchronization-failure message and no view segments are built.
C15_MalformedResponseFails ==
    [][(oracle = "pending" /\ oracle' = "idle" /\ Malformed(response)) =>
          /\ appState' = "error"
          /\ error' = ErrSyncFailed
          /\ viewElements' = viewElements]_vars

WhitespaceOnly(text) == \A i \in 1..Len(text) : text[i] \in WhiteSpace

\* C18: a submit without an audio file, or with a transcript of nothing but
\* whitespace, sets the error message and does nothing else: the alignment
\* call is not made and the application state, the timing list and the view
\* segments stay as they were.
C18_InvalidSubmitRejected ==
    [][(Submit /\ (~audioFile \/ WhitespaceOnly(textInput))) =>
          /\ error' = ErrProvideBoth
          /\ oracle' = "idle"
          /\ UNCHANGED <<appState, wordTimings, viewElements, submitPc>>]_vars

\* a file is chosen, the transcript is blank but not empty, and the submit
\* was rejected
C18_Witness ==
    /\ audioFile
    /\ textInput # <<>>
    /\ WhitespaceOnly(textInput)
    /\ error = ErrProvideBoth
    /\ oracle = "idle"

----------------------------------------------------------------------------
\* Properties of the layout

RightEdge == Px(CANVAS_WIDTH) - Px(PADDING)

\* the word laid out by this step
PlacedWord == wordLayouts'[Len(wordLayouts')]

\* word i is the first one placed on its line
FirstOnLine(i) == \A j \in 1..(i - 1) : wordLayouts[j].y # wordLayouts[i].y

\* C13 as stated: a word that would cross the left padding goes to a new line
\* one line height below, and on every line after the first the first word
\* placed has its right edge at canvasWidth - padding.
C13_FirstWordOfLineAtRightEdge ==
    \A i \in 1..Len(wordLayouts) :
        (FirstOnLine(i) /\ wordLayouts[i].y > Px(PADDING) + Px(FONT_SIZE))
            => wordLayouts[i].x = RightEdge

\* C13 amended: a word that would cross the left padding is placed one line
\* height below the cursor's line with its right edge at canvasWidth -
\* padding; any other word, the first of its line or not, is placed at the
\* cursor, on the cursor's line.
C13_WordWrapsToRightEdge ==
    [][Len(wordLayouts') = Len(wordLayouts) + 1 =>
          IF currentX - PlacedWord.width < Px(PADDING)
          THEN /\ PlacedWord.y = currentY + LINE_HEIGHT
               /\ PlacedWord.x = RightEdge
          ELSE /\ PlacedWord.y = currentY
               /\ PlacedWord.x = currentX]_vars

\* a word was pushed off the line of the word before it
C13_Witness ==
    \E i \in 2..Len(wordLayouts) :
        /\ wordLayouts[i].y = wordLayouts[i - 1].y + LINE_HEIGHT
        /\ wordLayouts[i - 1].x - wordLayouts[i - 1].width - wordLayouts[i].width < Px(PADDING)
        /\ wordLayouts[i].x = RightEdge

\* the loop is at a whitespace character other than a line break
AtBlank ==
    /\ layoutIndex < Len(viewElements)
    /\ viewElements[layoutIndex + 1].type = "whitespace"
    /\ viewElements[layoutIndex + 1].content[charIndex + 1] # "\n"

\* C14: every whitespace character other than a line break moves the cursor
\* left by its width, on the next line from the right edge when it would
\* cross the left padding on this one.
C14_BlankAlwaysConsumesWidth ==
    [][(AtBlank /\ <<layoutIndex, charIndex>>' # <<layoutIndex, charIndex>>) =>
          LET width == charWidth[viewElements[layoutIndex + 1].content[charIndex + 1]]
          IN  IF currentX - width < Px(PADDING)
              THEN /\ currentY' = currentY + LINE_HEIGHT
                   /\ currentX' = RightEdge - width
              ELSE /\ currentY' = currentY
                   /\ currentX' = currentX - width]_vars

----------------------------------------------------------------------------
\* Properties of the scroll

\* C12: a frame that leaves the target where it was either ends with
\* currentScrollY exactly at targetScrollY or strictly shortens the distance
\* between the two.  The distance is a natural number of twentieths of a
\* pixel, so finitely many frames reach the target, and a scroll at the
\* target stays there.
C12_ScrollConverges ==
    [][targetScrollY' = targetScrollY =>
          \/ currentScrollY' = targetScrollY
          \/ Abs(targetScrollY - currentScrollY')
                 < Abs(targetScrollY - currentScrollY)]_vars

\* the scroll has travelled and has arrived
C12_Witness ==
    /\ currentScrollY = targetScrollY
    /\ currentScrollY > 0

\* totalTextHeight - canvas.height
MaxScrollTop == totalTextHeight(wordLayouts) - Px(CANVAS_HEIGHT)

\* C21: when the text is higher than the canvas, the scroll target and the
\* scroll offset applied to the canvas lie between 0 and totalTextHeight -
\* canvasHeight in every frame, whatever words were active.
C21_ScrollWithinRange ==
    MaxScrollTop > 0 =>
        /\ targetScrollY >= 0 /\ targetScrollY <= MaxScrollTop
        /\ currentScrollY >= 0 /\ currentScrollY <= MaxScrollTop

\* a frame with a word highlighted, the target at the bottom and the scroll
\* on its way to it
C21_Witness ==
    /\ MaxScrollTop > 0
    /\ highlighted # {}
    /\ targetScrollY = MaxScrollTop
    /\ currentScrollY > 0
    /\ currentScrollY < targetScrollY

\* C22: a frame rendered while no word is active leaves the scroll target
\* where the frame before left it, and draws no word highlighted.
C22_GapKeepsTarget ==
    [][findIndex(wordTimings', audio'.currentTime) = -1 =>
          /\ targetScrollY' = targetScrollY
          /\ highlighted' = {}]_vars

\* in a silence after the last word of the text was active, the scroll is
\* still moving towards that word's line
C22_Witness ==
    /\ findIndex(wordTimings, audio.currentTime) = -1
    /\ highlighted = {}
    /\ targetScrollY > 0
    /\ currentScrollY > 0
    /\ currentScrollY < targetScrollY

\* the word segments among the elements the loop has been through
WordsLaidOut ==
    SelectSeq(SubSeq(viewElements, 1, layoutIndex), LAMBDA e : e.type = "word")

\* C23: the layout holds one entry for each word segment the loop has been
\* through, in segment order, with y never decreasing, and every word no
\* wider than canvasWidth - 2 * padding lies within the horizontal margins.
C23_OneLayoutPerWordInsideMargins ==
    /\ Len(wordLayouts) = Len(WordsLaidOut)
    /\ \A i \in 1..Len(wordLayouts) :
          /\ wordLayouts[i].word = WordsLaidOut[i].word
          /\ wordLayouts[i].originalIndex = WordsLaidOut[i].originalIndex
          /\ i > 1 => wordLayouts[i].y >= wordLayouts[i - 1].y
          /\ wordLayouts[i].width <= Px(CANVAS_WIDTH) - 2 * Px(PADDING) =>
                /\ Px(PADDING) <= wordLayouts[i].x - wordLayouts[i].width
                /\ wordLayouts[i].x <= Px(CANVAS_WIDTH) - Px(PADDING)

\* the loop is through a transcript of two words and the whitespace around
\* them; both fit a line, the second lies below the first
C23_Witness ==
    /\ layoutIndex = Len(viewElements)
    /\ Len(viewElements) > 2
    /\ Len(wordLayouts) = 2
    /\ \A i \in 1..2 : wordLayouts[i].width <= Px(CANVAS_WIDTH) - 2 * Px(PADDING)
    /\ wordLayouts[2].y > wordLayouts[1].y

====
